---------------------------- MODULE Spec2Model ----------------------------
(***************************************************************************)
(* Model of server.js: the attendance job tracker.                         *)
(*                                                                         *)
(*   POST /attendance   validates, creates a job record, starts the        *)
(*                      forwarding task (async IIFE, not awaited) and      *)
(*                      answers at once                                    *)
(*   forwarding task    awaits fetch(webhook), then response.json(), and   *)
(*                      writes the terminal status into jobs[jobId]        *)
(*   GET /status/:id    snapshot of one job record                         *)
(*   GET /recent-...    the last ten successful jobs, newest first         *)
(*   cleanupOldJobs     setInterval callback, deletes records older than   *)
(*                      one hour                                           *)
(*                                                                         *)
(* Time is counted in sweep intervals (30 minutes, server.js:177): the     *)
(* clock advances by one interval each time the setInterval callback       *)
(* runs.  The retention window of one hour is two intervals.  JavaScript   *)
(* runs each callback to its next await without interleaving, so each      *)
(* action below is one such run.                                           *)
(*                                                                         *)
(* The webhook is the environment: it settles a pending call when it       *)
(* chooses to.  server.js requires no fetch library and calls the global   *)
(* fetch, whose options have no "timeout" member, so the option            *)
(* timeout: 30000 of line 77 bounds nothing and the clock may advance      *)
(* while a call is pending.                                                *)
(*                                                                         *)
(* Spec is the server from its start.  PartsSpec starts from job stores    *)
(* of StoreSize records, more than the listing shows, and applies the      *)
(* listing, the sweep and the forwarder's endpoint selection to them.      *)
(***************************************************************************)
EXTENDS Integers, Sequences, FiniteSets, TLC

(* ------------------------------ bounds --------------------------------- *)

\* number of job ids uuidv4() hands out in a run of the model
MaxJobs == 2

\* the clock stops here
MaxTime == 3

\* number of records in the job stores the listing is applied to
StoreSize == 12

\* at most this many of those records are not successful
MaxOthers == 2

(* --------------------------- program constants -------------------------- *)

\* 60 * 60 * 1000 ms, in sweep intervals of 30 * 60 * 1000 ms
RetentionTicks == 2

\* the status a non-ok webhook response carries in the model
BadStatus == 500

\* timeout: 30000 (ms), rounded up to whole sweep intervals
TimeoutTicks == 1

\* .slice(-10)
RecentCap == 10

(* ------------------------- JavaScript values ---------------------------- *)

\* a property that is absent from an object / a body field that was not sent
Undefined == "<undefined>"

\* a truthy value that is not a string (JSON number 123)
Number123 == "<number 123>"

\* JSON null, the parsed value of the body "null"
Null == "<null>"

\* !v is false
Truthy(v) == v \notin {Undefined, Null, ""}

\* typeof v === "string"
IsString(v) == v \notin {Undefined, Null, Number123}

\* a || null
OrNull(v) == IF Truthy(v) THEN v ELSE Null

\* a body that passes the validation
SampleBody ==
  [name |-> "Alice", department |-> "Eng", date |-> "2024-01-01",
   time |-> "09:00", action |-> "login"]

\* the values a field of the body is given besides SampleBody's
FieldValues(f) ==
  CASE f = "name" -> {Undefined, Number123}
    [] f = "action" -> {Undefined, "logout", "maybe"}
    [] f = "date" -> {""}
    [] OTHER -> {Undefined}

\* req.body of POST /attendance: SampleBody, SampleBody with one field
\* changed, and a body with an unknown action and an empty name
Requests ==
  {SampleBody}
    \cup UNION {{[SampleBody EXCEPT ![f] = v] : v \in FieldValues(f)} :
                  f \in DOMAIN SampleBody}
    \cup {[SampleBody EXCEPT !.name = "", !.action = "maybe"]}

JobIds == 1 .. MaxJobs

\* an id no submission ever returned ("unknown-id")
UnknownId == 0

(* ------------------------------ state ----------------------------------- *)

VARIABLES
  jobs,       \* the job store: job id -> record (a function on the ids present)
  task,       \* per job id, where its forwarding task stands
  calls,      \* the outbound webhook calls started so far, in order
  nextId,     \* how many ids uuidv4() has handed out, plus one
  now,        \* Date.now(), in sweep intervals
  resp,       \* the response sent in the latest step (NoResponse if that
              \* step was no HTTP handler)
  unhandled,  \* job ids whose forwarding task ended in a rejected promise
  alive       \* the process is running

vars == <<jobs, task, calls, nextId, now, resp, unhandled, alive>>

(* ----------------------------- helpers ---------------------------------- *)

\* new Date(t).toISOString()
toISOString(t) == <<"ISO", t>>

\* new Date(isoString), as a number of intervals
DateParse(s) == s[2]

N8N_WEBHOOKS ==
  [login  |-> "https://sanchit2007.app.n8n.cloud/webhook/login",
   logout |-> "https://sanchit2007.app.n8n.cloud/webhook/logout"]

\* N8N_WEBHOOKS[action] || N8N_WEBHOOKS.login
InheritedNames == {"constructor"}

\* N8N_WEBHOOKS["constructor"]: the function Object, a truthy value that is
\* no URL
FunctionObject == "<function Object>"

WebhookUrl(action) ==
  IF action \in DOMAIN N8N_WEBHOOKS THEN N8N_WEBHOOKS[action]
  ELSE IF action \in InheritedNames THEN FunctionObject
  ELSE N8N_WEBHOOKS.login

\* faulty variant: an id generator that repeats itself
uuidv4Repeating(n) == 1

\* uuidv4(): a fresh id at every call
uuidv4(n) == n

\* faulty variant: the validation without the test of time
ValidateWithoutTime(r) ==
  IF ~Truthy(r.name) \/ ~Truthy(r.department) \/ ~Truthy(r.date)
       \/ ~Truthy(r.action)
  THEN "missing"
  ELSE IF r.action \notin {"login", "logout"} THEN "badaction"
  ELSE "ok"

\* faulty variant: the validation without the test of the action's value
ValidateAnyAction(r) ==
  IF ~Truthy(r.name) \/ ~Truthy(r.department) \/ ~Truthy(r.date)
       \/ ~Truthy(r.time) \/ ~Truthy(r.action)
  THEN "missing"
  ELSE "ok"

\* the validation of POST /attendance
Validate(r) ==
  IF ~Truthy(r.name) \/ ~Truthy(r.department) \/ ~Truthy(r.date)
       \/ ~Truthy(r.time) \/ ~Truthy(r.action)
  THEN "missing"
  ELSE IF r.action \notin {"login", "logout"} THEN "badaction"
  ELSE "ok"

MissingFieldsError ==
  "Missing required fields: name, department, date, time, action"

BadActionError == "Action must be either 'login' or 'logout'"

\* the record POST /attendance stores
NewJob(r, t) ==
  [status |-> "processing", action |-> r.action, name |-> r.name,
   timestamp |-> toISOString(t), error |-> Undefined, n8nResponse |-> Undefined]

\* faulty variant: the record is not stored before the answer is sent
PutSkipped(js, id, rec) == js

\* jobs[jobId] = record
Put(js, id, rec) ==
  [k \in DOMAIN js \cup {id} |-> IF k = id THEN rec ELSE js[k]]


\* faulty variant: the catch block marks every pending record failed
WriteFailedEverywhere(js, id, msg) ==
  [k \in DOMAIN js |->
     IF js[k].status = "processing"
     THEN [js[k] EXCEPT !.status = "failed", !.error = msg]
     ELSE js[k]]

\* faulty variant: the catch block records the error and leaves the status
WriteErrorOnly(js, id, msg) == [js EXCEPT ![id].error = msg]

\* jobs[jobId].status = "failed"; jobs[jobId].error = error.message
WriteFailed(js, id, msg) ==
  [js EXCEPT ![id].status = "failed", ![id].error = msg]

\* jobs[jobId].status = "success"; jobs[jobId].n8nResponse = n8nResponse
WriteSuccess(js, id, n8nResponse) ==
  [js EXCEPT ![id].status = "success", ![id].n8nResponse = n8nResponse]

\* action.charAt(0).toUpperCase() + action.slice(1)
Capitalize(action) ==
  CASE action = "login" -> "Login"
    [] action = "logout" -> "Logout"
    [] OTHER -> action

\* the body of the 200 answer of POST /attendance
Accepted(jobId, action) ==
  [success |-> TRUE, jobId |-> jobId,
   message |-> Capitalize(action) \o " request submitted successfully",
   action |-> action]

\* faulty variant: the handler awaits the forwarding task, whose failure then
\* reaches the handler's own catch
AnswerCodeAwaited(taskThrew) == IF taskThrew THEN 500 ELSE 200

\* the status of the answer to an accepted submission: the forwarding task's
\* promise is not awaited, so res.json() at the end of the try block runs
\* whether or not the task has already failed
AnswerCode(taskThrew) == 200

\* the outbound call: the endpoint and the webhookData it is sent
OutboundCall(jobId, r, t) ==
  [url |-> WebhookUrl(r.action), jobId |-> jobId, action |-> r.action,
   name |-> r.name, department |-> r.department, date |-> r.date,
   time |-> r.time, timestamp |-> toISOString(t)]

\* error.message of the TypeError name.trim() throws on a name that is no string
TrimError == "name.trim is not a function"

\* error.message of the TypeError an assignment to jobs[jobId].status throws
\* when jobs[jobId] is undefined
SetStatusError == "Cannot set properties of undefined (setting 'status')"

\* error.message of the Error thrown on a response that is not ok
StatusError(code) == "N8N webhook responded with status: " \o ToString(code)

\* error.message of a rejected fetch.  The global fetch rejects with
\* TypeError("fetch failed") for a network failure and for a timeout of the
\* runtime alike
FetchFailures == {"fetch failed"}

\* the bodies a webhook answers with: a JSON object, JSON null, no JSON
Bodies == {"{\"ok\":true}", "null", "<html>"}

\* response.json() fulfils
JsonParses(b) == b \in {"{\"ok\":true}", "null"}

\* the value response.json() fulfils with
JsonParse(b) == IF b = "null" THEN Null ELSE "object " \o b

\* response.json().catch(() => ({ status: "success" }))
JsonOrDefault(b) ==
  IF JsonParses(b) THEN JsonParse(b) ELSE "object {\"status\":\"success\"}"

\* jobs is an object literal: jobs[key] finds the properties every object
\* inherits from Object.prototype as well as the records.  ConstructorId
\* stands for the path parameter "constructor"
ConstructorId == -1

InheritedIds == {ConstructorId}

\* the fields the handler reads of jobs["constructor"], the function Object:
\* its name is "Object", it has none of the other properties
ObjectConstructor ==
  [status |-> Undefined, action |-> Undefined, name |-> "Object",
   timestamp |-> Undefined, error |-> Undefined, n8nResponse |-> Undefined]

\* the answer of GET /status/:jobId: const job = jobs[jobId]; if (!job) 404
StatusResponse(js, id) ==
  IF id \notin DOMAIN js /\ id \notin InheritedIds
  THEN [route |-> "status", code |-> 404,
        body |-> [status |-> "not_found"]]
  ELSE LET job == IF id \in DOMAIN js THEN js[id] ELSE ObjectConstructor
       IN [route |-> "status", code |-> 200,
           body |-> [status |-> job.status, action |-> job.action,
                     name |-> job.name, timestamp |-> job.timestamp,
                     error |-> OrNull(job.error),
                     n8nResponse |-> OrNull(job.n8nResponse)]]

\* faulty variant: the handler writes the defaults of its answer into the record
StoreAfterStatusDefaulted(js, id) ==
  IF id \in DOMAIN js
  THEN [js EXCEPT ![id].error = OrNull(js[id].error),
                  ![id].n8nResponse = OrNull(js[id].n8nResponse)]
  ELSE js

\* what the handler of GET /status/:jobId leaves in the job store: it only
\* reads jobs[jobId]
StoreAfterStatus(js, id) == js

\* faulty variant: the sweep spares the records that are still processing
ExpiredIfSettled(rec, t) ==
  /\ rec.status # "processing"
  /\ DateParse(rec.timestamp) < t - RetentionTicks

\* faulty variant: jobTime <= oneHourAgo
ExpiredAtCutoff(rec, t) == DateParse(rec.timestamp) <= t - RetentionTicks

\* jobTime < oneHourAgo
Expired(rec, t) == DateParse(rec.timestamp) < t - RetentionTicks

\* the job store after the forEach of cleanupOldJobs
Sweep(js, t) == [k \in {j \in DOMAIN js : ~Expired(js[j], t)} |-> js[k]]

\* the keys of S in the order Object.entries lists them.  The keys of jobs are
\* uuids, which are no array indices, so the order is that of insertion: the
\* order in which uuidv4 handed them out
RECURSIVE InsertionOrder(_)
InsertionOrder(S) ==
  IF S = {} THEN <<>>
  ELSE LET first == CHOOSE k \in S : \A m \in S : k <= m
       IN <<first>> \o InsertionOrder(S \ {first})

\* Object.entries(jobs).filter(([_, job]) => job.status === "success")
SuccessEntries(js) ==
  LET IsSuccess(k) == js[k].status = "success"
  IN SelectSeq(InsertionOrder(DOMAIN js), IsSuccess)

\* faulty variant: .slice(0, 10), the first n elements
SliceFirst(seq, n) ==
  IF Len(seq) <= n THEN seq ELSE SubSeq(seq, 1, n)

\* .slice(-10): the last n elements
SliceLast(seq, n) ==
  IF Len(seq) <= n THEN seq ELSE SubSeq(seq, Len(seq) - n + 1, Len(seq))

\* .reverse()
Reverse(seq) == [i \in 1 .. Len(seq) |-> seq[Len(seq) + 1 - i]]

\* the array GET /recent-activities answers with
RecentJobs(js) ==
  LET kept == SliceLast(SuccessEntries(js), RecentCap)
      mapped == [i \in 1 .. Len(kept) |->
                   [jobId |-> kept[i], name |-> js[kept[i]].name,
                    action |-> js[kept[i]].action,
                    timestamp |-> js[kept[i]].timestamp]]
  IN Reverse(mapped)

\* a step that answers no HTTP request: a continuation of a forwarding task,
\* the timer callback
NoResponse == [route |-> "none", code |-> 0, body |-> [status |-> "none"]]

(* ------------------------------ Init ------------------------------------ *)

Init ==
  /\ jobs = <<>>
  /\ task = [j \in JobIds |-> "none"]
  /\ calls = <<>>
  /\ nextId = 1
  /\ now = 0
  /\ resp = NoResponse
  /\ unhandled = {}
  /\ alive = TRUE

(* ----------------------------- actions ----------------------------------- *)

\* app.post("/attendance"): validation, the job record, the synchronous part
\* of the forwarding task (up to its await fetch), the answer
Attendance(r) ==
  /\ alive
  /\ LET v == Validate(r) IN
     IF v = "missing"
     THEN /\ resp' = [route |-> "attendance", code |-> 400,
                      body |-> [error |-> MissingFieldsError]]
          /\ UNCHANGED <<jobs, task, calls, nextId>>
     ELSE IF v = "badaction"
     THEN /\ resp' = [route |-> "attendance", code |-> 400,
                      body |-> [error |-> BadActionError]]
          /\ UNCHANGED <<jobs, task, calls, nextId>>
     ELSE /\ nextId <= MaxJobs
          /\ LET jobId == uuidv4(nextId)
                 created == Put(jobs, jobId, NewJob(r, now))
             IN /\ nextId' = nextId + 1
                /\ IF IsString(r.name)
                   THEN \* await fetch(...): the task is suspended
                        /\ jobs' = created
                        /\ calls' = Append(calls, OutboundCall(jobId, r, now))
                        /\ task' = [task EXCEPT ![jobId] = "fetch"]
                   ELSE \* name.trim() throws, the catch block runs at once
                        /\ jobs' = WriteFailed(created, jobId, TrimError)
                        /\ calls' = calls
                        /\ task' = [task EXCEPT ![jobId] = "done"]
                /\ resp' = [route |-> "attendance",
                            code |-> AnswerCode(~IsString(r.name)),
                            body |-> Accepted(jobId, r.action)]
  /\ UNCHANGED <<now, unhandled, alive>>

\* the catch block of the forwarding task.  With jobs[jobId] deleted the
\* assignment throws inside the catch block and the task's promise rejects
\* with nothing to handle it: Node prints a warning or ends the process,
\* depending on its version and --unhandled-rejections
CatchBlock(j, msg) ==
  IF j \in DOMAIN jobs
  THEN /\ jobs' = WriteFailed(jobs, j, msg)
       /\ task' = [task EXCEPT ![j] = "done"]
       /\ UNCHANGED <<unhandled, alive>>
  ELSE /\ task' = [task EXCEPT ![j] = "rejected"]
       /\ unhandled' = unhandled \cup {j}
       /\ alive' \in BOOLEAN
       /\ UNCHANGED jobs

\* fetch fulfils with a response; response.ok decides
FetchResolve(j, ok) ==
  /\ alive
  /\ task[j] = "fetch"
  /\ IF ok
     THEN /\ task' = [task EXCEPT ![j] = "json"]
          /\ UNCHANGED <<jobs, unhandled, alive>>
     ELSE CatchBlock(j, StatusError(BadStatus))
  /\ resp' = NoResponse
  /\ UNCHANGED <<calls, nextId, now>>

\* faulty variant: a rejected fetch is tried once more
FetchRejectRetrying(j, reason) ==
  /\ alive
  /\ task[j] = "fetch"
  /\ LET sent == {i \in 1 .. Len(calls) : calls[i].jobId = j}
     IN IF Cardinality(sent) = 1
        THEN /\ calls' = Append(calls, calls[CHOOSE i \in sent : TRUE])
             /\ UNCHANGED <<jobs, task, unhandled, alive>>
        ELSE /\ CatchBlock(j, reason)
             /\ calls' = calls
  /\ resp' = NoResponse
  /\ UNCHANGED <<nextId, now>>

\* fetch rejects
FetchReject(j, reason) ==
  /\ alive
  /\ task[j] = "fetch"
  /\ CatchBlock(j, reason)
  /\ resp' = NoResponse
  /\ UNCHANGED <<calls, nextId, now>>

\* faulty variant: response.json() without its .catch, a body that is no JSON
\* reaches the catch block of the task
JsonSettleStrict(j, b) ==
  /\ alive
  /\ task[j] = "json"
  /\ IF j \in DOMAIN jobs /\ JsonParses(b)
     THEN /\ jobs' = WriteSuccess(jobs, j, JsonParse(b))
          /\ task' = [task EXCEPT ![j] = "done"]
          /\ UNCHANGED <<unhandled, alive>>
     ELSE CatchBlock(j, "Unexpected token < in JSON at position 0")
  /\ resp' = NoResponse
  /\ UNCHANGED <<calls, nextId, now>>

\* response.json() settles
JsonSettle(j, b) ==
  /\ alive
  /\ task[j] = "json"
  /\ IF j \in DOMAIN jobs
     THEN /\ jobs' = WriteSuccess(jobs, j, JsonOrDefault(b))
          /\ task' = [task EXCEPT ![j] = "done"]
          /\ UNCHANGED <<unhandled, alive>>
     ELSE CatchBlock(j, SetStatusError)
  /\ resp' = NoResponse
  /\ UNCHANGED <<calls, nextId, now>>

\* app.get("/status/:jobId")
GetStatus(id) ==
  /\ alive
  /\ resp' = StatusResponse(jobs, id)
  /\ jobs' = StoreAfterStatus(jobs, id)
  /\ UNCHANGED <<task, calls, nextId, now, unhandled, alive>>

\* setInterval(cleanupOldJobs, 30 * 60 * 1000): one interval passes and the
\* callback runs
cleanupOldJobs ==
  /\ alive
  /\ now < MaxTime
  /\ now' = now + 1
  /\ jobs' = Sweep(jobs, now')
  /\ resp' = NoResponse
  /\ UNCHANGED <<task, calls, nextId, unhandled, alive>>

\* app.get("/recent-activities")
RecentActivities ==
  /\ alive
  /\ resp' = [route |-> "recent", code |-> 200,
              body |-> [list |-> RecentJobs(jobs)]]
  /\ UNCHANGED <<jobs, task, calls, nextId, now, unhandled, alive>>

Next ==
  \/ \E r \in Requests : Attendance(r)
  \/ \E j \in JobIds, ok \in BOOLEAN : FetchResolve(j, ok)
  \/ \E j \in JobIds, reason \in FetchFailures : FetchReject(j, reason)
  \/ \E j \in JobIds, b \in Bodies : JsonSettle(j, b)
  \/ \E id \in JobIds \cup {UnknownId} \cup InheritedIds : GetStatus(id)
  \/ RecentActivities
  \/ cleanupOldJobs

Spec == Init /\ [][Next]_vars

\* the continuations of the forwarding task of job j
Forward(j) ==
  \/ \E ok \in BOOLEAN : FetchResolve(j, ok)
  \/ \E reason \in FetchFailures : FetchReject(j, reason)
  \/ \E b \in Bodies : JsonSettle(j, b)

\* the webhook settles every call in the end and the event loop runs the
\* continuation
FairSpec == Spec /\ \A j \in JobIds : WF_vars(Forward(j))

(* ---------------- the handlers on stores of many records ---------------- *)

StoreIds == 1 .. StoreSize

\* the records are created in the order of their ids, spread over the
\* retention window and the sweep interval before it
StoredAt(i) == ((i - 1) * (RetentionTicks + 1)) \div StoreSize

\* the event of record i
StoredEvent(i) ==
  [SampleBody EXCEPT !.action = IF i % 2 = 0 THEN "logout" ELSE "login"]

\* the store after StoreSize accepted submissions of which those in others
\* have not succeeded: the odd ones have failed, the even ones are pending
RECURSIVE StoreUpTo(_, _)
StoreUpTo(n, others) ==
  IF n = 0 THEN <<>>
  ELSE LET created == Put(StoreUpTo(n - 1, others), n,
                          NewJob(StoredEvent(n), StoredAt(n)))
       IN IF n \notin others
          THEN WriteSuccess(created, n, JsonOrDefault("{\"ok\":true}"))
          ELSE IF n % 2 = 1
          THEN WriteFailed(created, n, StatusError(BadStatus))
          ELSE created

PartsInit ==
  /\ \E others \in SUBSET StoreIds :
        /\ Cardinality(others) <= MaxOthers
        /\ jobs = StoreUpTo(StoreSize, others)
  /\ task = [j \in JobIds |-> "none"]
  /\ calls = <<>>
  /\ nextId = StoreSize + 1
  /\ now = RetentionTicks
  /\ resp = NoResponse
  /\ unhandled = {}
  /\ alive = TRUE

\* the names an event's action is drawn from when nothing has validated it
ActionNames == {"login", "logout", "maybe"} \cup InheritedNames

\* the first part of the forwarding task, up to its fetch, on an event
\* whose action nothing has validated
ForwardEvent(action) ==
  /\ alive
  /\ calls = <<>>
  /\ calls' = <<OutboundCall(nextId, [SampleBody EXCEPT !.action = action],
                             now)>>
  /\ resp' = NoResponse
  /\ UNCHANGED <<jobs, task, nextId, now, unhandled, alive>>

PartsNext ==
  \/ RecentActivities
  \/ cleanupOldJobs
  \/ \E action \in ActionNames : ForwardEvent(action)

PartsSpec == PartsInit /\ [][PartsNext]_vars

(* ------------------------- vocabulary of the claims --------------------- *)

Fields == {"name", "department", "date", "time", "action"}

\* the field is absent from the body or empty
MissingOrEmpty(r, f) == r[f] \in {Undefined, ""}

\* all five fields are present and non-empty and the action is one of the two
PresentAndAllowed(r) ==
  /\ \A f \in Fields : ~MissingOrEmpty(r, f)
  /\ r.action \in {"login", "logout"}

\* a valid event: all five fields are non-empty strings and the action is
\* one of the two
ValidSubmission(r) ==
  /\ PresentAndAllowed(r)
  /\ \A f \in Fields : r[f] # Number123

\* the step is the handling of a POST /attendance that creates no job and
\* starts no call
NothingCreated ==
  /\ jobs' = jobs
  /\ calls' = calls
  /\ task' = task
  /\ nextId' = nextId

Terminal == {"success", "failed"}

\* the delivery of job j is under way
Delivering(ts, j) == ts[j] \in {"fetch", "json"}

\* the delivery of job j is over
Delivered(ts, j) == ts[j] \in {"done", "rejected"}

\* the bodies in which one of the five fields is missing or empty
IncompleteRequests ==
  {r \in Requests : \E f \in Fields : MissingOrEmpty(r, f)}

\* the bodies whose action is neither login nor logout
BadActionRequests == {r \in Requests : r.action \notin {"login", "logout"}}

\* the bodies that are valid events
ValidRequests == {r \in Requests : ValidSubmission(r)}

\* the bodies with five present, non-empty fields and an allowed action
AllowedRequests == {r \in Requests : PresentAndAllowed(r)}

(* ------------------------------- claims --------------------------------- *)

C2_StatusOnlyForward ==
  [][/\ \A j \in DOMAIN jobs \cap DOMAIN jobs' :
          jobs'[j].status # jobs[j].status =>
            /\ jobs[j].status = "processing"
            /\ jobs'[j].status \in Terminal
     /\ \A j \in DOMAIN jobs' \ DOMAIN jobs : j = nextId]_vars

\* C2 witness: one record has gone to success and another to failed, each
\* written by its forwarding task.
C2_Witness ==
  \E j, k \in DOMAIN jobs :
    /\ jobs[j].status = "success"
    /\ jobs[k].status = "failed"
    /\ task[j] = "done"
    /\ task[k] = "done"
    /\ jobs[k].error = StatusError(BadStatus)

\* C3: no forwarding task ever ends in a rejected promise, and the process
\* stays alive.
C3_NoEscape == unhandled = {} /\ alive

\* C4: a POST /attendance whose body misses one of the five fields, or holds
\* it empty, is answered 400 and leaves the job store, the tasks and the
\* outbound calls as they were.
C4_MissingFieldRejected ==
  [][\/ /\ resp'.route = "attendance"
        /\ resp'.code = 400
        /\ NothingCreated
     \/ \A r \in IncompleteRequests : ~Attendance(r)]_vars

\* C4 witness: a submission with a missing field was answered 400 while a
\* job accepted earlier is the only one in the store.
C4_Witness ==
  /\ resp.route = "attendance"
  /\ resp.code = 400
  /\ resp.body.error = MissingFieldsError
  /\ DOMAIN jobs = {1}
  /\ nextId = 2
  /\ Len(calls) = 1

\* C5 (as claimed): every POST /attendance whose action is outside
\* {login, logout} is answered 400 with the error "Action must be either
\* 'login' or 'logout'" and creates nothing.
C5_BadActionError ==
  [][\A r \in BadActionRequests :
       Attendance(r) =>
         /\ resp'.code = 400
         /\ resp'.body.error = BadActionError
         /\ NothingCreated]_vars

\* C5 (amended): every POST /attendance whose action is outside
\* {login, logout} is answered 400 and creates nothing; the error is "Action
\* must be either 'login' or 'logout'" when all five fields are present and
\* non-empty, and "Missing required fields: ..." when one of them (the action
\* included) is missing or empty.
C5_BadActionRejected ==
  [][resp'.route = "attendance" =>
     \A r \in BadActionRequests :
       Attendance(r) =>
         /\ resp'.code = 400
         /\ resp'.body.error =
              IF \E f \in Fields : MissingOrEmpty(r, f)
              THEN MissingFieldsError ELSE BadActionError
         /\ NothingCreated]_vars

\* C5 witness: a submission with an action outside the two was answered 400
\* with the action error while a job accepted earlier is the only one stored.
C5_Witness ==
  /\ resp.route = "attendance"
  /\ resp.code = 400
  /\ resp.body.error = BadActionError
  /\ DOMAIN jobs = {1}
  /\ nextId = 2
  /\ Len(calls) = 1

\* C6: under fairness of the forwarding task (the webhook settles every
\* call and the continuation runs), every job whose webhook call is pending
\* is later found by GET /status with status success or failed, and with a
\* non-empty error when failed.
C6_EventuallyTerminal ==
  \A j \in JobIds :
    (task[j] = "fetch") ~>
      /\ StatusResponse(jobs, j).code = 200
      /\ StatusResponse(jobs, j).body.status \in Terminal
      /\ StatusResponse(jobs, j).body.status = "failed" =>
           StatusResponse(jobs, j).body.error \notin {Null, ""}

\* C7: a run of cleanupOldJobs leaves in the store no record whose timestamp
\* is more than the retention window before the time of the run, whatever
\* the record's status.
C7_SweepEvictsOld ==
  [][now' # now =>
       \A j \in DOMAIN jobs :
         DateParse(jobs[j].timestamp) < now' - RetentionTicks =>
           j \notin DOMAIN jobs']_vars

\* C7 witness: a sweep has evicted a record that was still processing and a
\* record that had reached a terminal status.
C7_Witness ==
  \E j, k \in JobIds :
    /\ j < nextId /\ k < nextId
    /\ j \notin DOMAIN jobs /\ k \notin DOMAIN jobs
    /\ task[j] = "fetch"
    /\ task[k] = "done"

\* C8: no webhook call is still pending once more than the timeout has
\* passed since it was started (a call that is pending a whole sweep
\* interval after the interval that followed its start has been pending for
\* more than 30 minutes).
C8_TimeoutUnblocks ==
  \A i \in 1 .. Len(calls) :
    task[calls[i].jobId] = "fetch" =>
      now - DateParse(calls[i].timestamp) <= TimeoutTicks

\* C9: every POST /attendance whose five fields are present and non-empty
\* and whose action is login or logout is answered 200 with success = true,
\* the new job id and the action, also when the forwarding task has already
\* failed; and no step in which a pending forwarding task moves on sends a
\* response to anyone.
C9_AcceptedWhateverDelivery ==
  [][/\ resp'.route = "attendance" =>
        \A r \in AllowedRequests :
          Attendance(r) =>
            /\ resp'.code = 200
            /\ resp'.body.success
            /\ resp'.body.jobId = nextId
            /\ resp'.body.jobId \in DOMAIN jobs'
            /\ resp'.body.action = r.action
     /\ \A j \in JobIds :
          (Delivering(task, j) /\ task'[j] # task[j]) =>
            resp' = NoResponse]_vars

\* C9 witness: the submitter is answered 200 although the forwarding task of
\* that job has already failed; the failure is in the record only.
C9_Witness ==
  /\ resp.route = "attendance"
  /\ resp.code = 200
  /\ resp.body.success
  /\ resp.body.jobId \in DOMAIN jobs
  /\ jobs[resp.body.jobId].status = "failed"
  /\ jobs[resp.body.jobId].error = TrimError

\* what a poll of job j would be answered before and after a step
SameAnswer(j) == StatusResponse(jobs', j) = StatusResponse(jobs, j)

\* C10 (as claimed): a step that answers a poll never changes the job store;
\* across any step during which the delivery of a job stays incomplete the
\* answer to a poll of that job stays the same, and likewise across any step
\* during which the delivery stays complete.
C10_PollStable ==
  [][/\ resp'.route = "status" => jobs' = jobs
     /\ \A j \in JobIds :
          \/ Delivering(task, j) /\ Delivering(task', j)
          \/ Delivered(task, j) /\ Delivered(task', j)
          => SameAnswer(j)]_vars

\* C10 (amended): a step that answers a poll never changes the job store; as
\* long as the record of a job stays in the store, the answer to a poll of
\* that job stays the same across any step during which its delivery stays
\* incomplete (the "processing" snapshot) and across any step during which
\* its delivery stays complete (the terminal snapshot).  Once the sweep has
\* evicted the record the answer is 404 not_found.
C10_PollStableWhileStored ==
  /\ [][/\ resp'.route = "status" => jobs' = jobs
        /\ \A j \in DOMAIN jobs \cap DOMAIN jobs' :
             \/ Delivering(task, j) /\ Delivering(task', j)
             \/ Delivered(task, j) /\ Delivered(task', j)
             => (jobs'[j] = jobs[j] \/ SameAnswer(j))]_vars
  /\ [](\A j \in JobIds :
          IF j \in DOMAIN jobs
          THEN /\ Delivering(task, j) =>
                    StatusResponse(jobs, j).body.status = "processing"
               /\ Delivered(task, j) =>
                    StatusResponse(jobs, j).body.status \in Terminal
          ELSE StatusResponse(jobs, j).code = 404)

\* C10 witness: a poll has just answered with the terminal snapshot of a
\* record whose delivery is over.
C10_Witness ==
  /\ resp.route = "status"
  /\ resp.code = 200
  /\ resp.body.status = "success"
  /\ \E j \in DOMAIN jobs :
       /\ resp = StatusResponse(jobs, j)
       /\ Delivered(task, j)

\* the successful records of the store
Successes == {j \in DOMAIN jobs : jobs[j].status = "success"}

\* C11: whenever GET /recent-activities has just answered, its list holds
\* only successful jobs of the store, each with its own name, action and
\* timestamp, at most 10 of them, newest first, and they are the most recent
\* successes: as many as there are up to 10, and no success left out is
\* newer than a listed one.
C11_RecentSuccessesNewestFirst ==
  resp.route = "recent" =>
    LET list == resp.body.list
        listed == {list[i].jobId : i \in 1 .. Len(list)}
    IN /\ Len(list) <= 10
       /\ listed \subseteq Successes
       /\ Len(list) = IF Cardinality(Successes) < 10
                      THEN Cardinality(Successes) ELSE 10
       /\ \A i \in 1 .. Len(list) :
            /\ list[i].name = jobs[list[i].jobId].name
            /\ list[i].action = jobs[list[i].jobId].action
            /\ list[i].timestamp = jobs[list[i].jobId].timestamp
       /\ \A i \in 1 .. Len(list) - 1 :
            /\ DateParse(list[i].timestamp) >= DateParse(list[i + 1].timestamp)
            /\ list[i].jobId # list[i + 1].jobId
       /\ \A j \in Successes \ listed, k \in listed :
            DateParse(jobs[j].timestamp) <= DateParse(jobs[k].timestamp)

\* C11 witness: the store holds more than 10 successes and a failed record;
\* the listing has just answered with 10 entries, the first newer than the
\* last.
C11_Witness ==
  /\ resp.route = "recent"
  /\ Len(resp.body.list) = 10
  /\ Cardinality(Successes) > 10
  /\ \E j \in DOMAIN jobs : jobs[j].status = "failed"
  /\ DateParse(resp.body.list[1].timestamp)
       > DateParse(resp.body.list[10].timestamp)

\* the path parameters a poll is drawn from
PollIds == JobIds \cup {UnknownId} \cup InheritedIds

\* C12: every GET /status/:jobId is answered 200 exactly when the id has a
\* record in the job store, and 404 {status: "not_found"} when it has none.
C12_NotFoundWithoutRecord ==
  [][resp'.route = "status" =>
     \A id \in PollIds :
       GetStatus(id) =>
         IF id \in DOMAIN jobs
         THEN resp'.code = 200
         ELSE /\ resp'.code = 404
              /\ resp'.body = [status |-> "not_found"]]_vars

\* C13: a record carries an error only when it has failed and a downstream
\* response only when it has succeeded; no record carries both and a
\* processing record carries neither.
C13_OutcomeFieldsMatchStatus ==
  \A j \in DOMAIN jobs :
    /\ jobs[j].error # Undefined => jobs[j].status = "failed"
    /\ jobs[j].n8nResponse # Undefined => jobs[j].status = "success"
    /\ jobs[j].error = Undefined \/ jobs[j].n8nResponse = Undefined
    /\ jobs[j].status = "processing" =>
         /\ jobs[j].error = Undefined
         /\ jobs[j].n8nResponse = Undefined

\* C13 witness: the store holds a failed record with its error and a
\* successful record with its downstream response.
C13_Witness ==
  \E j, k \in DOMAIN jobs :
    /\ jobs[j].status = "failed"
    /\ jobs[j].error = "fetch failed"
    /\ jobs[j].n8nResponse = Undefined
    /\ jobs[k].status = "success"
    /\ jobs[k].n8nResponse # Undefined
    /\ jobs[k].error = Undefined

\* C14: every successful record has a downstream response and every failed
\* record an error, in the record and in the snapshot GET /status returns for
\* it, so that a snapshot with neither belongs to a processing job.
C14_TerminalCarriesOutcome ==
  \A j \in DOMAIN jobs :
    LET body == StatusResponse(jobs, j).body
    IN /\ jobs[j].status = "success" =>
            /\ jobs[j].n8nResponse \notin {Undefined, Null}
            /\ body.n8nResponse # Null
       /\ jobs[j].status = "failed" =>
            /\ jobs[j].error \notin {Undefined, Null, ""}
            /\ body.error # Null
       /\ (body.error = Null /\ body.n8nResponse = Null) =>
            body.status = "processing"

\* what the record holds as downstream response after a success response
\* with body b: the parsed body, or the placeholder when b is no JSON
ExpectedResponse(b) ==
  CASE b = "{\"ok\":true}" -> "object {\"ok\":true}"
    [] b = "null" -> Null
    [] OTHER -> "object {\"status\":\"success\"}"

\* C15: when a forwarding task completes for a job whose record is in the
\* store, a success response gives status success with the parsed body, or
\* the placeholder {status: "success"} for a body that is no JSON, never
\* failed; a response that is not ok gives failed with the error naming the
\* HTTP status; a rejected fetch (network failure, timeout of the runtime)
\* gives failed with the reason of the rejection.
C15_OutcomeMatchesDelivery ==
  [][\A j \in DOMAIN jobs :
       (Delivering(task, j) /\ task'[j] # task[j]) =>
         /\ task[j] = "json" =>
              /\ task'[j] = "done"
              /\ jobs'[j].status = "success"
              /\ jobs'[j].error = Undefined
              /\ \A b \in Bodies :
                   JsonSettle(j, b) =>
                     jobs'[j].n8nResponse = ExpectedResponse(b)
         /\ FetchResolve(j, TRUE) =>
              /\ task'[j] = "json"
              /\ jobs'[j] = jobs[j]
         /\ FetchResolve(j, FALSE) =>
              /\ task'[j] = "done"
              /\ jobs'[j].status = "failed"
              /\ jobs'[j].error = "N8N webhook responded with status: 500"
              /\ jobs'[j].n8nResponse = Undefined
         /\ \A reason \in FetchFailures :
              FetchReject(j, reason) =>
                /\ task'[j] = "done"
                /\ jobs'[j].status = "failed"
                /\ jobs'[j].error = reason
                /\ reason # ""
                /\ jobs'[j].n8nResponse = Undefined]_vars

\* C15 witness: one job succeeded with the placeholder after a body that was
\* no JSON, another failed on a response that was not ok.
C15_Witness ==
  \E j, k \in DOMAIN jobs :
    /\ task[j] = "done"
    /\ jobs[j].status = "success"
    /\ jobs[j].n8nResponse = "object {\"status\":\"success\"}"
    /\ task[k] = "done"
    /\ jobs[k].status = "failed"
    /\ jobs[k].error = "N8N webhook responded with status: 500"

\* C16: when a forwarding task completes for a job whose record has been
\* evicted, nothing happens: the store is unchanged, no exception escapes,
\* the process lives on and a poll of the id is answered not_found.
C16_LateCompletionIsNoOp ==
  [][\A j \in JobIds :
       (Delivering(task, j) /\ Delivered(task', j) /\ j \notin DOMAIN jobs) =>
         /\ jobs' = jobs
         /\ unhandled' = unhandled
         /\ alive'
         /\ StatusResponse(jobs', j).code = 404]_vars

\* C17: a step in which the delivery of job j moves on is a step of the
\* forwarding task of j; it leaves the set of stored ids and every other
\* job's record and task as they were, and in the record of j it leaves
\* action, name and timestamp as the submission wrote them.
C17_ForwarderWritesOwnRecordOnly ==
  [][\A j \in JobIds :
       (Delivering(task, j) /\ task'[j] # task[j]) =>
         /\ Forward(j)
         /\ DOMAIN jobs' = DOMAIN jobs
         /\ \A k \in JobIds \ {j} : task'[k] = task[k]
         /\ \A k \in DOMAIN jobs \ {j} : jobs'[k] = jobs[k]
         /\ j \in DOMAIN jobs =>
              /\ jobs'[j].action = jobs[j].action
              /\ jobs'[j].name = jobs[j].name
              /\ jobs'[j].timestamp = jobs[j].timestamp]_vars

\* C17 witness: two deliveries overlapped; the later job's task has written
\* its success while the earlier job still awaits its fetch, its record
\* untouched.
C17_Witness ==
  /\ DOMAIN jobs = {1, 2}
  /\ task[1] = "fetch"
  /\ jobs[1] = NewJob(SampleBody, 0)
  /\ task[2] = "done"
  /\ jobs[2].status = "success"
  /\ jobs[2].action = "logout"

\* C18: no job id is sent to a webhook twice, every call belongs to an
\* accepted submission, and there are no more calls than accepted
\* submissions: nothing is sent again after a failure.
C18_OneCallPerJob ==
  /\ Len(calls) < nextId
  /\ \A i \in 1 .. Len(calls) :
       /\ calls[i].jobId \in 1 .. nextId - 1
       /\ \A k \in 1 .. Len(calls) : calls[k].jobId = calls[i].jobId => k = i

\* C18 witness: both deliveries have failed, one on a rejected fetch and one
\* on a response that was not ok, and each job was sent once.
C18_Witness ==
  /\ Len(calls) = 2
  /\ task[1] = "done"
  /\ task[2] = "done"
  /\ \E j, k \in DOMAIN jobs :
       /\ jobs[j].error = "fetch failed"
       /\ jobs[k].error = "N8N webhook responded with status: 500"

C20_SweepKeepsYoung ==
  /\ [][now' # now =>
          \A j \in DOMAIN jobs :
            DateParse(jobs[j].timestamp) >= now' - RetentionTicks =>
              /\ j \in DOMAIN jobs'
              /\ jobs'[j] = jobs[j]]_vars
  /\ [](\A i \in 1 .. Len(calls) :
          now - DateParse(calls[i].timestamp) <= RetentionTicks =>
            /\ calls[i].jobId \in DOMAIN jobs
            /\ StatusResponse(jobs, calls[i].jobId).code = 200)

\* C20 witness: a sweep has just run, evicted the first job and kept the
\* second, which was created one retention window before the sweep.
C20_Witness ==
  /\ resp = NoResponse
  /\ nextId = 3
  /\ DOMAIN jobs = {2}
  /\ now - DateParse(jobs[2].timestamp) = RetentionTicks

=============================================================================
